---- MODULE Spec2Model ----
(***************************************************************************)
(* Soil-moisture drone routing (src/app.py): the route solver              *)
(* (nearest_neighbor_route, two_opt), the request handler run_simulation,  *)
(* the background moisture updater mqtt_loop and the station planning      *)
(* arithmetic.                                                             *)
(*                                                                         *)
(* Numbers.  The program computes with IEEE doubles; the model computes    *)
(* with integers.  A coordinate is a pair <<lat, lon>> of grid units       *)
(* (milliradians of offset, the same ground length on both axes), and a    *)
(* distance is a whole number of metres: haversine is the small-angle      *)
(* form R * sqrt(dlat^2 + dlon^2) of the great-circle formula, rounded     *)
(* down.  Moisture is a whole number of percent.  Python list indices are  *)
(* 0-based; a route holds the program's 0-based indices and At(s, j) reads *)
(* s[j] of the program.                                                    *)
(***************************************************************************)
EXTENDS Integers, Sequences, FiniteSets, TLC

VARIABLES
    \* ---- the route solver, step by step (nearest_neighbor_route, two_opt)
    coords,        \* the coordinate list: coords[0] is the depot
    route,         \* nearest_neighbor_route's local `route`, then two_opt's argument
    unvisited,     \* nearest_neighbor_route's local `unvisited`
    current,       \* nearest_neighbor_route's local `current`
    opt,           \* two_opt's locals: best, best_len, improved, iters, i, k
    pc,            \* position of the solver
    call,          \* 1: two_opt(route, coords); 2: two_opt on its own output
    first_out,     \* what the first call of two_opt returned
    last,          \* the pair two_opt examined last, and whether it was accepted
    \* ---- run_simulation and mqtt_loop
    sensors,       \* the global list `sensors`
    sim_pc,        \* position of run_simulation
    radius_km, n_sensors, power_per_sensor_mV,   \* arguments of run_simulation
    dry,           \* local `dry`: references into `sensors` (0-based positions)
    sel,           \* position of the comprehension of line 110
    seen,          \* the moisture values line 110 read, by sensor position
    route_idx, nn_dist, opt_dist,                \* locals of run_simulation
    summary,       \* what run_simulation returned to index()
    upd_len,       \* length of the list object mqtt_loop's for-loop iterates
    upd_idx,       \* position of mqtt_loop's for-loop
    upd_stale,     \* TRUE when that list object is no longer the global list
    updates        \* moisture updates so far (bounds the model)

routeVars == <<coords, route, unvisited, current, opt, pc, call, first_out, last>>
simVars == <<sensors, sim_pc, radius_km, n_sensors, power_per_sensor_mV, dry, sel,
             seen, route_idx, nn_dist, opt_dist, summary, upd_len, upd_idx,
             upd_stale, updates>>
vars == <<routeVars, simVars>>

\* -------------------------------------------------------------- bounds
MaxTargets == 4      \* targets in a coordinate list of the route specification
MaxSensors == 3      \* largest n_sensors of a simulated request
MaxUpdates == 2      \* moisture updates of mqtt_loop in one behaviour
MaxN == 25           \* largest n_sensors of the station planning specification
MaxP == 5            \* largest power_per_sensor_mV of the station planning specification

\* ------------------------------------------------------ program constants
DRY_THRESHOLD == 30
R == 6371
max_iters == 200

\* ------------------------------------------------------------- helpers
At(s, j) == s[j + 1]

Min(S) == CHOOSE x \in S : \A y \in S : x <= y

RECURSIVE SqrtIter(_, _, _)
SqrtIter(x, lo, hi) ==
    IF lo = hi THEN lo
    ELSE LET mid == (lo + hi + 1) \div 2
         IN IF mid * mid <= x THEN SqrtIter(x, mid, hi) ELSE SqrtIter(x, lo, mid - 1)

\* math.sqrt, rounded down
sqrt(x) == SqrtIter(x, 0, IF x < 46340 THEN x ELSE 46340)

\* haversine(lat1, lon1, lat2, lon2), in metres
haversine(lat1, lon1, lat2, lon2) ==
    sqrt(R * R * ((lat2 - lat1) * (lat2 - lat1) + (lon2 - lon1) * (lon2 - lon1)))

\* total_path_length_km(points)
RECURSIVE path_sum(_, _)
path_sum(points, j) ==
    IF j >= Len(points) THEN 0
    ELSE haversine(points[j][1], points[j][2], points[j + 1][1], points[j + 1][2])
         + path_sum(points, j + 1)

total_path_length_km(points) == IF Len(points) > 1 THEN path_sum(points, 1) ELSE 0

\* [coords[i] for i in r]
PointsOf(r, cs) == [p \in 1..Len(r) |-> At(cs, r[p])]

\* -------------------------------------------------- nearest_neighbor_route
\* the key of line 64: distance from coords[current] to coords[j]
Key(cs, cur, j) ==
    haversine(At(cs, cur)[1], At(cs, cur)[2], At(cs, j)[1], At(cs, j)[2])

\* min(unvisited, key=...): Python's min keeps the first of the minimal elements in
\* iteration order, and CPython iterates a set of small non-negative ints built by
\* set(range(1, n)) in ascending order (each int hashes to itself, the table is
\* larger than n, removals leave the slots in place).
RECURSIVE min_scan(_, _, _, _)
min_scan(cs, cur, rest, bestj) ==
    IF rest = {} THEN bestj
    ELSE LET j == Min(rest)
         IN min_scan(cs, cur, rest \ {j},
                     IF Key(cs, cur, j) < Key(cs, cur, bestj) THEN j ELSE bestj)

RECURSIVE min_scan_last(_, _, _, _)
min_scan_last(cs, cur, rest, bestj) ==
    IF rest = {} THEN bestj
    ELSE LET j == Min(rest)
         IN min_scan_last(cs, cur, rest \ {j},
                          IF Key(cs, cur, j) <= Key(cs, cur, bestj) THEN j ELSE bestj)

nearest_last_tie(cs, cur, unv) ==
    LET f == Min(unv) IN min_scan_last(cs, cur, unv \ {f}, f)

nearest(cs, cur, unv) ==
    LET f == Min(unv) IN min_scan(cs, cur, unv \ {f}, f)

\* the while loop of lines 63-69 and the closing append of line 70
RECURSIVE nn_loop(_, _, _, _)
nn_loop(cs, r, cur, unv) ==
    IF unv = {} THEN Append(r, 0)
    ELSE LET nxt == nearest(cs, cur, unv)
         IN nn_loop(cs, Append(r, nxt), nxt, unv \ {nxt})

nearest_neighbor_route_open(cs) ==
    IF Len(cs) = 1 THEN <<0>> ELSE nn_loop(cs, <<0>>, 0, 1..(Len(cs) - 1))

nearest_neighbor_route(cs) == nn_loop(cs, <<0>>, 0, 1..(Len(cs) - 1))

\* ------------------------------------------------------------------ two_opt
\* best[:i] + best[i:k + 1][::-1] + best[k + 1:]   (i, k are 0-based positions)
ReversedFromDepot(best, i, k) ==
    [p \in 1..Len(best) |-> IF i <= p /\ p <= k + 1 THEN best[i + k + 1 - p] ELSE best[p]]

Reversed(best, i, k) ==
    [p \in 1..Len(best) |-> IF i + 1 <= p /\ p <= k + 1 THEN best[i + k + 2 - p] ELSE best[p]]

\* the test of line 85
ImprovesFlipped(new_len, best_len) == new_len > best_len

Improves(new_len, best_len) == new_len < best_len

\* the pair the two for-loops of lines 81-82 reach after (i, k) on a list of length
\* n; i = n - 2 says that range(1, n - 2) is exhausted
NextPairRestart(i, k, n, accepted) ==
    IF accepted THEN <<1, 2>>
    ELSE IF k + 1 <= n - 2 THEN <<i, k + 1>> ELSE <<i + 1, i + 2>>

NextPair(i, k, n, accepted) ==
    IF k + 1 <= n - 2 THEN <<i, k + 1>> ELSE <<i + 1, i + 2>>

\* lines 74-77
two_opt_enter(r, cs) ==
    [best |-> r, best_len |-> total_path_length_km(PointsOf(r, cs)),
     improved |-> TRUE, iters |-> 0, i |-> 0, k |-> 0, at |-> "while"]

\* line 78, and lines 79-81 when the loop is entered
two_opt_while_single_pass(s) ==
    IF s.improved /\ s.iters < 1
    THEN [s EXCEPT !.improved = FALSE, !.iters = s.iters + 1, !.i = 1, !.k = 2,
                   !.at = IF 1 <= Len(s.best) - 3 THEN "scan" ELSE "while"]
    ELSE [s EXCEPT !.at = "return"]

two_opt_while(s) ==
    IF s.improved /\ s.iters < max_iters
    THEN [s EXCEPT !.improved = FALSE, !.iters = s.iters + 1, !.i = 1, !.k = 2,
                   !.at = IF 1 <= Len(s.best) - 3 THEN "scan" ELSE "while"]
    ELSE [s EXCEPT !.at = "return"]

\* lines 83-86 for the pair (s.i, s.k), then the loops' advance
two_opt_examine(s, cs) ==
    LET new_route == Reversed(s.best, s.i, s.k)
        new_len == total_path_length_km(PointsOf(new_route, cs))
        acc == Improves(new_len, s.best_len)
        nx == NextPair(s.i, s.k, Len(s.best), acc)
    IN [best |-> IF acc THEN new_route ELSE s.best,
        best_len |-> IF acc THEN new_len ELSE s.best_len,
        improved |-> (acc \/ s.improved),
        iters |-> s.iters, i |-> nx[1], k |-> nx[2],
        at |-> IF nx[1] <= Len(s.best) - 3 THEN "scan" ELSE "while"]

two_opt_step(s, cs) ==
    IF s.at = "while" THEN two_opt_while(s) ELSE two_opt_examine(s, cs)

RECURSIVE two_opt_run(_, _)
two_opt_run(s, cs) ==
    IF s.at = "return" THEN s.best ELSE two_opt_run(two_opt_step(s, cs), cs)

two_opt(r, cs) == two_opt_run(two_opt_enter(r, cs), cs)

\* ------------------------------------------------- run_simulation, helpers
\* CENTER_DEFAULT of line 14 is the origin of the grid.
CENTER_DEFAULT == <<0, 0>>

\* What the requests and the random source supply.  A radius and a km offset are
\* counted in the ground length of one grid unit, so that km_to_deg_lat and
\* km_to_deg_lon, both linear, have factor 1 at the centre's latitude.
RadiusSamples == {-1, 0, 1}
PowerSamples == {5}
UnitSamples == {0, 1}          \* math.sqrt(random.random()), at the ends of its range
ThetaSamples == {0}            \* theta, in quarter turns
MoistureSamples == {0, 30, 100}    \* random.uniform(0, 100)
DeltaSamples == {-5, 3}        \* random.uniform(-5, 3)

Sin(th) == IF th = 1 THEN 1 ELSE 0
Cos(th) == IF th = 0 THEN 1 ELSE 0

km_to_deg_lat(km) == km
km_to_deg_lon(km, lat) == km

\* sample_point_in_disc(lat0, lon0, radius_km) with the draws u and th
sample_point_in_disc(lat0, lon0, radius, u, th) ==
    LET r == radius * u
    IN <<lat0 + km_to_deg_lat(r) * Sin(th), lon0 + km_to_deg_lon(r, lat0) * Cos(th)>>

\* random_sensors: what one element of the comprehension can draw; lat and lon
\* come from two separate samples of the disc
SensorDraws(lat0, lon0, radius) ==
    {[lat |-> sample_point_in_disc(lat0, lon0, radius, u1, t1)[1],
      lon |-> sample_point_in_disc(lat0, lon0, radius, u2, t2)[2],
      moisture |-> m] :
        u1 \in UnitSamples, t1 \in ThetaSamples,
        u2 \in UnitSamples, t2 \in ThetaSamples, m \in MoistureSamples}

\* every list random_sensors(n, ...) can return; range(n) is empty for n <= 0.
\* The id f"SENSOR_{i + 1}" is kept as the number i + 1.
random_sensors(n, lat0, lon0, radius) ==
    IF n <= 0 THEN {<<>>}
    ELSE {[j \in 1..n |-> [id |-> j, lat |-> g[j].lat, lon |-> g[j].lon,
                           moisture |-> g[j].moisture]] :
             g \in [1..n -> SensorDraws(lat0, lon0, radius)]}

\* s.moisture < DRY_THRESHOLD
IsDryInclusive(m) == m <= DRY_THRESHOLD

IsDry(m) == m < DRY_THRESHOLD

\* max(0, min(100, s.moisture + delta))
Clamp(m) == IF m < 0 THEN 0 ELSE IF m > 100 THEN 100 ELSE m

\* line 113: [(DEPOT lat, lon)] + [(s.lat, s.lon) for s in dry]; dry holds references
\* to Sensor objects of the list ss
TargetCoordsRefiltered(center, refs, ss) ==
    LET now == {j \in 1..Len(ss) : IsDry(ss[j].moisture)}
        RECURSIVE asc(_)
        asc(S) == IF S = {} THEN <<>>
                  ELSE LET j == Min(S) IN <<(<<ss[j].lat, ss[j].lon>>)>> \o asc(S \ {j})
    IN <<center>> \o asc(now)

TargetCoords(center, refs, ss) ==
    <<center>> \o [j \in 1..Len(refs) |-> <<At(ss, refs[j]).lat, At(ss, refs[j]).lon>>]

\* math.ceil(a / b) for b > 0
floor_div(a, b) == a \div b

ceil_div(a, b) == -((-a) \div b)

\* lines 119-125
PlanningMetrics(n, p) ==
    LET total_power == p * n
        station_power_mV == p * 10
        num_stations == ceil_div(total_power, station_power_mV)
    IN [total_power |-> total_power,
        stations_needed |-> num_stations,
        station_output |-> num_stations * station_power_mV,
        station_capacity |-> station_power_mV]

\* ---------------------------------------------- the route solver, step by step
\* The depot, and the places a target can be at: a list drawn from them may hold
\* the same place several times (duplicate coordinates, distance 0).
DEPOT == <<0, 0>>
PointSamples == {<<1, 0>>, <<0, 1>>, <<2, 2>>}

CoordLists ==
    UNION {{<<DEPOT>> \o t : t \in [1..n -> PointSamples]} : n \in 0..MaxTargets}

\* every closed tour over the targets 1..n
ClosedTours(n) ==
    {<<0>> \o t \o <<0>> : t \in {f \in [1..n -> 1..n] : \A a, b \in 1..n : f[a] = f[b] => a = b}}

NoOpt == [best |-> <<>>, best_len |-> 0, improved |-> FALSE, iters |-> 0,
          i |-> 0, k |-> 0, at |-> "none"]
NoPair == [i |-> 0, k |-> 0, accepted |-> FALSE, before |-> <<>>, len |-> 0]

SimIdle ==
    /\ sensors = <<>> /\ sim_pc = "idle"
    /\ radius_km = 0 /\ n_sensors = 0 /\ power_per_sensor_mV = 0
    /\ dry = <<>> /\ sel = 0 /\ seen = <<>>
    /\ route_idx = <<>> /\ nn_dist = 0 /\ opt_dist = 0
    /\ summary = <<>>
    /\ upd_len = 0 /\ upd_idx = 0 /\ upd_stale = FALSE
    /\ updates = 0

RouteIdle ==
    /\ coords = <<>> /\ route = <<>> /\ unvisited = {} /\ current = 0
    /\ opt = NoOpt /\ pc = "none" /\ call = 0 /\ first_out = <<>> /\ last = NoPair

\* Either nearest_neighbor_route(coords) has run lines 60-62 and two_opt will be
\* given its route (run_simulation, line 114), or two_opt is called with any closed
\* tour over coords.
RouteInit ==
    /\ coords \in CoordLists
    /\ \/ /\ pc = "nn"
          /\ route = <<0>>
          /\ unvisited = 1..(Len(coords) - 1)
       \/ /\ pc = "two_opt"
          /\ route \in ClosedTours(Len(coords) - 1)
          /\ unvisited = {}
    /\ current = 0
    /\ opt = NoOpt /\ call = 1 /\ first_out = <<>> /\ last = NoPair
    /\ SimIdle

\* lines 63-69, one iteration
NNStep ==
    /\ pc = "nn" /\ unvisited # {}
    /\ LET nxt == nearest(coords, current, unvisited)
       IN /\ route' = Append(route, nxt)
          /\ unvisited' = unvisited \ {nxt}
          /\ current' = nxt
    /\ UNCHANGED <<coords, opt, pc, call, first_out, last, simVars>>

\* lines 70-71
NNClose ==
    /\ pc = "nn" /\ unvisited = {}
    /\ route' = Append(route, 0)
    /\ pc' = "two_opt"
    /\ UNCHANGED <<coords, unvisited, current, opt, call, first_out, last, simVars>>

\* lines 74-77: the first call is given route, the second what the first returned
TwoOptEnter ==
    /\ pc = "two_opt"
    /\ opt' = two_opt_enter(IF call = 1 THEN route ELSE first_out, coords)
    /\ pc' = "loop"
    /\ last' = NoPair
    /\ UNCHANGED <<coords, route, unvisited, current, call, first_out, simVars>>

\* line 78 (and 79-81)
TwoOptWhile ==
    /\ pc = "loop" /\ opt.at = "while"
    /\ opt' = two_opt_while(opt)
    /\ last' = NoPair
    /\ UNCHANGED <<coords, route, unvisited, current, pc, call, first_out, simVars>>

\* lines 83-86 for one pair (i, k)
TwoOptExamine ==
    /\ pc = "loop" /\ opt.at = "scan"
    /\ opt' = two_opt_examine(opt, coords)
    /\ last' = [i |-> opt.i, k |-> opt.k, accepted |-> opt'.best # opt.best,
                before |-> opt.best, len |-> opt.best_len]
    /\ UNCHANGED <<coords, route, unvisited, current, pc, call, first_out, simVars>>

\* line 87
TwoOptReturn ==
    /\ pc = "loop" /\ opt.at = "return"
    /\ IF call = 1
       THEN first_out' = opt.best /\ call' = 2 /\ pc' = "two_opt"
       ELSE pc' = "done" /\ UNCHANGED <<call, first_out>>
    /\ UNCHANGED <<coords, route, unvisited, current, opt, last, simVars>>

RouteNext ==
    \/ NNStep
    \/ NNClose
    \/ TwoOptEnter
    \/ TwoOptWhile
    \/ TwoOptExamine
    \/ TwoOptReturn

SpecRoute == RouteInit /\ [][RouteNext]_vars

\* ------------------------------------------------ claims on the route solver
\* r begins and ends with 0 and holds each of 1..n exactly once, 0 nowhere else
IsClosedTour(r, n) ==
    /\ Len(r) = n + 2
    /\ r[1] = 0 /\ r[Len(r)] = 0
    /\ \A p \in 2..(n + 1) : r[p] \in 1..n
    /\ \A t \in 1..n : Cardinality({p \in 2..(n + 1) : r[p] = t}) = 1

\* route was built by nearest_neighbor_route (a direct call of two_opt leaves the
\* local `current` of nearest_neighbor_route at 0)
FromNN == pc = "nn" \/ current # 0 \/ Len(coords) = 1

PathLen(r) == total_path_length_km(PointsOf(r, coords))

\* C1: the route nearest_neighbor_route returns, every tour two_opt holds in `best`
\* and the tour two_opt returns begin and end with index 0 and hold every target
\* index 1..k exactly once.
C1_ClosedTour ==
    LET n == Len(coords) - 1
    IN /\ pc # "nn" => IsClosedTour(route, n)
       /\ pc \in {"loop", "done"} => IsClosedTour(opt.best, n)
       /\ call = 2 => IsClosedTour(first_out, n)

C1_Witness ==
    /\ pc = "done" /\ current # 0
    /\ Len(coords) = 5
    /\ first_out # route

\* C2: best_len never increases across a step of two_opt, and the tour two_opt
\* returns is no longer than the tour it was given.
C2_NeverLonger ==
    /\ [](call = 2 => PathLen(first_out) <= PathLen(route))
    /\ [][(pc = "loop" /\ pc' = "loop") => opt'.best_len <= opt.best_len]_vars

C2_Witness ==
    /\ call = 2 /\ current # 0
    /\ PathLen(first_out) < PathLen(route)

\* C3: two_opt applied to its own output returns that output.
C3_Idempotent == pc = "done" => opt.best = first_out

C3_Witness ==
    /\ pc = "done" /\ first_out # route /\ opt.best = first_out

\* the pairs the scan of a list of length n visits, and their order
Pairs(n) == {q \in (1..(n - 3)) \X (2..(n - 2)) : q[1] < q[2]}
Before(a, b) == a[1] < b[1] \/ (a[1] = b[1] /\ a[2] < b[2])
IsSucc(a, b, n) ==
    /\ b \in Pairs(n) /\ Before(a, b)
    /\ \A c \in Pairs(n) : ~(Before(a, c) /\ Before(c, b))
IsLastPair(a, n) == \A c \in Pairs(n) : ~Before(a, c)

\* C8 as stated: after an accepted reversal the next pair examined is (1, 2), and
\* the accepted pair is the first improving pair, in scan order, of the tour that
\* was current when it was accepted.
C8_RestartFromTop ==
    (pc = "loop" /\ last.accepted) =>
        /\ opt.at = "scan" => <<opt.i, opt.k>> = <<1, 2>>
        /\ \A q \in Pairs(Len(last.before)) :
               Before(q, <<last.i, last.k>>) =>
                   PathLen(Reversed(last.before, q[1], q[2])) >= last.len

\* C8 as amended: two_opt sweeps.  After examining (i, k), accepted or not, it
\* examines the pair that follows (i, k) in scan order, on the tour it now holds;
\* only when (i, k) was the last pair does the pass end, and a new scan from
\* (1, 2) starts only from line 78, when a move of the finished pass was accepted.
\* An accepted move is the reversal of i..k and strictly shortens the tour.
C8_SweepContinues ==
    [][(pc = "loop" /\ pc' = "loop") =>
         LET n == Len(opt.best)
         IN /\ opt.at = "scan" =>
                 /\ IF IsLastPair(<<opt.i, opt.k>>, n)
                    THEN opt'.at = "while"
                    ELSE opt'.at = "scan" /\ IsSucc(<<opt.i, opt.k>>, <<opt'.i, opt'.k>>, n)
                 /\ opt'.best # opt.best =>
                        /\ opt'.best = Reversed(opt.best, opt.i, opt.k)
                        /\ PathLen(opt'.best) < PathLen(opt.best)
            /\ (opt.at = "while" /\ opt'.at = "scan") =>
                 /\ <<opt'.i, opt'.k>> = <<1, 2>>
                 /\ opt.improved /\ opt'.best = opt.best
       ]_vars

C8_Witness ==
    /\ pc = "loop" /\ last.accepted
    /\ opt.at = "scan" /\ <<opt.i, opt.k>> # <<1, 2>>

\* C9: every index nearest_neighbor_route appends is unvisited, at minimal distance
\* from the node before it among the unvisited indices, and the lowest of the
\* indices at that distance; when it returns, every index was appended and one 0
\* closes the tour.
C9_NearestLowestIndex ==
    FromNN =>
        LET n == Len(coords) - 1
            m == IF pc = "nn" THEN Len(route) ELSE Len(route) - 1
        IN /\ route[1] = 0
           /\ \A p \in 2..m :
                 LET cur == route[p - 1]
                     unv == (1..n) \ {route[q] : q \in 1..(p - 1)}
                 IN /\ route[p] \in unv
                    /\ \A j \in unv :
                          /\ Key(coords, cur, route[p]) <= Key(coords, cur, j)
                          /\ Key(coords, cur, route[p]) = Key(coords, cur, j)
                                 => route[p] <= j
           /\ pc = "nn" => unvisited = (1..n) \ {route[q] : q \in 1..m}
           /\ pc # "nn" => m = n + 1 /\ route[m + 1] = 0

\* a finished construction in which some step had to break a tie
C9_Witness ==
    /\ pc = "two_opt" /\ call = 1 /\ current # 0
    /\ \E p \in 2..(Len(route) - 1) :
          \E j \in (1..(Len(coords) - 1)) \ {route[q] : q \in 1..p} :
              Key(coords, route[p - 1], j) = Key(coords, route[p - 1], route[p])

\* ------------------------------------------------ run_simulation and mqtt_loop
\* One request is followed from the call of run_simulation to its return; the
\* process is in the state an earlier request, if any, left: the global list is
\* empty or holds that request's field.  The maps, the tile area and the optimized
\* power (rendering and float scaling of the figures below) are left out.
PriorFields ==
    {<<>>,
     <<[id |-> 1, lat |-> 0, lon |-> 1, moisture |-> 29],
       [id |-> 2, lat |-> 0, lon |-> 0, moisture |-> 100]>>}

SimInit ==
    /\ sensors \in PriorFields /\ sim_pc = "idle"
    /\ radius_km = 0 /\ n_sensors = 0 /\ power_per_sensor_mV = 0
    /\ dry = <<>> /\ sel = 0 /\ seen = <<>>
    /\ route_idx = <<>> /\ nn_dist = 0 /\ opt_dist = 0
    /\ summary = <<>>
    /\ upd_len = 0 /\ upd_idx = 0 /\ upd_stale = FALSE
    /\ updates = 0
    /\ RouteIdle

\* index() calls run_simulation, line 109: the field is generated and the global
\* list replaced.  A for-loop of mqtt_loop that is under way keeps the old list.
Generate ==
    /\ sim_pc = "idle"
    /\ \E rad \in RadiusSamples, n \in (-1)..MaxSensors, pw \in PowerSamples :
         /\ radius_km' = rad /\ n_sensors' = n /\ power_per_sensor_mV' = pw
         /\ sensors' \in random_sensors(n, CENTER_DEFAULT[1], CENTER_DEFAULT[2], rad)
         /\ sim_pc' = IF n <= 0 THEN "route" ELSE "select"
    /\ upd_stale' = (upd_idx < upd_len)
    /\ UNCHANGED <<dry, sel, seen, route_idx, nn_dist, opt_dist, summary,
                   upd_len, upd_idx, updates, routeVars>>

\* line 110, one element of the comprehension: s.moisture is read and compared
Select ==
    /\ sim_pc = "select"
    /\ LET m == At(sensors, sel).moisture
       IN /\ seen' = Append(seen, m)
          /\ dry' = IF IsDry(m) THEN Append(dry, sel) ELSE dry
    /\ sel' = sel + 1
    /\ sim_pc' = IF sel + 1 = Len(sensors) THEN "route" ELSE "select"
    /\ UNCHANGED <<sensors, radius_km, n_sensors, power_per_sensor_mV, route_idx,
                   nn_dist, opt_dist, summary, upd_len, upd_idx, upd_stale,
                   updates, routeVars>>

\* lines 112-116
SolveRoute ==
    /\ sim_pc = "route"
    /\ LET cs == TargetCoords(CENTER_DEFAULT, dry, sensors)
           r == two_opt(nearest_neighbor_route(cs), cs)
       IN /\ route_idx' = r
          /\ nn_dist' = total_path_length_km(PointsOf(nearest_neighbor_route(cs), cs))
          /\ opt_dist' = total_path_length_km(PointsOf(r, cs))
    /\ sim_pc' = "plan"
    /\ UNCHANGED <<sensors, radius_km, n_sensors, power_per_sensor_mV, dry, sel, seen,
                   summary, upd_len, upd_idx, upd_stale, updates, routeVars>>

\* lines 118-125 and 174-182, and the summary of lines 204-213
Return ==
    /\ sim_pc = "plan"
    /\ LET pm == PlanningMetrics(n_sensors, power_per_sensor_mV)
       IN summary' = [n_sensors |-> Len(sensors), dry_count |-> Len(dry),
                      nn_distance |-> nn_dist, opt_distance |-> opt_dist,
                      total_power |-> pm.total_power,
                      stations_needed |-> pm.stations_needed,
                      station_output |-> pm.station_output,
                      station_capacity |-> pm.station_capacity]
    /\ sim_pc' = "returned"
    /\ UNCHANGED <<sensors, radius_km, n_sensors, power_per_sensor_mV, dry, sel, seen,
                   route_idx, nn_dist, opt_dist, upd_len, upd_idx, upd_stale,
                   updates, routeVars>>

\* mqtt_loop, line 37: a for-loop starts on the list that is global now
UpdaterBegin ==
    /\ upd_idx = upd_len
    /\ upd_len' = Len(sensors) /\ upd_idx' = 0 /\ upd_stale' = FALSE
    /\ UNCHANGED <<sensors, sim_pc, radius_km, n_sensors, power_per_sensor_mV, dry,
                   sel, seen, route_idx, nn_dist, opt_dist, summary, updates,
                   routeVars>>

\* mqtt_loop, lines 38-39, one sensor of the list the loop iterates.  The objects
\* of a replaced list are reachable from nowhere else: updating them shows nowhere.
UpdaterStep ==
    /\ upd_idx < upd_len /\ updates < MaxUpdates
    /\ \E d \in DeltaSamples :
         sensors' = IF upd_stale THEN sensors
                    ELSE [sensors EXCEPT ![upd_idx + 1].moisture =
                              Clamp(sensors[upd_idx + 1].moisture + d)]
    /\ upd_idx' = upd_idx + 1
    /\ updates' = updates + 1
    /\ UNCHANGED <<sim_pc, radius_km, n_sensors, power_per_sensor_mV, dry, sel, seen,
                   route_idx, nn_dist, opt_dist, summary, upd_len, upd_stale,
                   routeVars>>

Next ==
    \/ Generate
    \/ Select
    \/ SolveRoute
    \/ Return
    \/ UpdaterBegin
    \/ UpdaterStep

Spec == SimInit /\ [][Next]_vars

\* ------------------------------------------------- claims on run_simulation
\* positions (0-based) of the sensors whose moisture, as line 110 read it, is below
\* the threshold, in insertion order
RECURSIVE Ascending(_)
Ascending(S) == IF S = {} THEN <<>> ELSE LET j == Min(S) IN <<j>> \o Ascending(S \ {j})

SeenDry == {j \in 0..(Len(seen) - 1) : At(seen, j) < DRY_THRESHOLD}

\* the 3 positions of lowest moisture read, ties broken by insertion order
Lowest3 ==
    {j \in 0..(Len(seen) - 1) :
        Cardinality({h \in 0..(Len(seen) - 1) :
                        \/ At(seen, h) < At(seen, j)
                        \/ (At(seen, h) = At(seen, j) /\ h < j)}) < 3}

SelectionDone == sim_pc \in {"route", "plan", "returned"}

\* C4 as stated: with fewer than 3 sensors below 30 in a field of at least 3, the
\* targets are the 3 sensors of lowest moisture; otherwise they are the sensors
\* below 30, in insertion order.
C4_FallbackThreeLowest ==
    SelectionDone =>
        IF Cardinality(SeenDry) < 3 /\ Len(sensors) >= 3
        THEN {dry[j] : j \in 1..Len(dry)} = Lowest3 /\ Len(dry) = 3
        ELSE dry = Ascending(SeenDry)

\* C4 as amended: the targets are the sensors whose moisture read at line 110 is
\* below 30, in insertion order, however few they are: there is no fallback.
C4_DryOnly ==
    /\ Len(seen) = sel
    /\ dry = Ascending(SeenDry)
    /\ SelectionDone => Len(seen) = Len(sensors)

C4_Witness ==
    /\ SelectionDone /\ Len(sensors) >= 3
    /\ Len(dry) < 3 /\ dry = Ascending(SeenDry)

RouteDone == sim_pc \in {"plan", "returned"}

\* C5 as stated: with no target the route is [0] and both distances are 0.
C5_SingleDepot ==
    (RouteDone /\ Len(dry) = 0) =>
        route_idx = <<0>> /\ nn_dist = 0 /\ opt_dist = 0

\* C5 as amended: with no target the route is [0, 0], the depot and the closing
\* depot, and both distances are 0.
C5_DepotTwice ==
    (RouteDone /\ Len(dry) = 0) =>
        /\ route_idx = <<0, 0>> /\ nn_dist = 0 /\ opt_dist = 0
        /\ sim_pc = "returned" => summary.nn_distance = 0 /\ summary.opt_distance = 0

C5_Witness ==
    /\ sim_pc = "returned" /\ Len(dry) = 0 /\ Len(sensors) > 0
    /\ route_idx = <<0, 0>>

\* C6: a call with a negative radius or a sensor count <= 0 is rejected before
\* generation: the global list stays as it was and the call neither proceeds nor
\* returns a summary.
C6_InvalidRejected ==
    [][(sim_pc = "idle" /\ sim_pc' # "idle" /\ (radius_km' < 0 \/ n_sensors' <= 0)) =>
          (sensors' = sensors /\ sim_pc' = "rejected")]_vars

\* C10: a step that is not the generation of the field (line 109) leaves every
\* sensor's id, lat and lon alone and its moisture within [0, 100], and a step of
\* mqtt_loop leaves the locals of the run alone; what a run holds and returns is
\* what the positions of the field and the moisture values read at line 110
\* determine, whatever mqtt_loop did to the moisture since.
SeenCoords ==
    <<CENTER_DEFAULT>> \o
        [j \in 1..Cardinality(SeenDry) |->
            <<At(sensors, Ascending(SeenDry)[j]).lat, At(sensors, Ascending(SeenDry)[j]).lon>>]

C10_Determined ==
    /\ dry = Ascending(SeenDry)
    /\ RouteDone =>
         /\ route_idx = two_opt(nearest_neighbor_route(SeenCoords), SeenCoords)
         /\ nn_dist = total_path_length_km(
                          PointsOf(nearest_neighbor_route(SeenCoords), SeenCoords))
         /\ opt_dist = total_path_length_km(PointsOf(route_idx, SeenCoords))
    /\ sim_pc = "returned" =>
         /\ summary.dry_count = Cardinality(SeenDry)
         /\ summary.nn_distance = nn_dist /\ summary.opt_distance = opt_dist

C10_UpdaterIsolated ==
    /\ []C10_Determined
    /\ [][~(sim_pc = "idle" /\ sim_pc' # "idle") =>
            /\ Len(sensors') = Len(sensors)
            /\ \A j \in 1..Len(sensors) :
                  /\ sensors'[j].id = sensors[j].id
                  /\ sensors'[j].lat = sensors[j].lat
                  /\ sensors'[j].lon = sensors[j].lon
                  /\ sensors'[j].moisture \in 0..100
            /\ (sel' = sel /\ sim_pc' = sim_pc) =>
                  <<dry', seen', route_idx', nn_dist', opt_dist', summary'>>
                      = <<dry, seen, route_idx, nn_dist, opt_dist, summary>>
       ]_vars

\* a run has returned with targets, and mqtt_loop has since made dry a sensor that
\* line 110 read as not dry
C10_Witness ==
    /\ sim_pc = "returned" /\ Len(dry) > 0 /\ ~upd_stale
    /\ \E j \in 1..Len(sensors) : IsDry(sensors[j].moisture) /\ ~IsDry(seen[j])

\* -------------------------------------------------------- station planning
\* lines 119-125 for every n_sensors in 1..MaxN and power_per_sensor_mV in 1..MaxP
PowerInit ==
    /\ n_sensors \in 1..MaxN /\ power_per_sensor_mV \in 1..MaxP
    /\ sim_pc = "power"
    /\ sensors = <<>> /\ radius_km = 0
    /\ dry = <<>> /\ sel = 0 /\ seen = <<>>
    /\ route_idx = <<>> /\ nn_dist = 0 /\ opt_dist = 0
    /\ summary = <<>>
    /\ upd_len = 0 /\ upd_idx = 0 /\ upd_stale = FALSE
    /\ updates = 0
    /\ RouteIdle

PlanStations ==
    /\ sim_pc = "power"
    /\ summary' = PlanningMetrics(n_sensors, power_per_sensor_mV)
    /\ sim_pc' = "planned"
    /\ UNCHANGED <<sensors, radius_km, n_sensors, power_per_sensor_mV, dry, sel, seen,
                   route_idx, nn_dist, opt_dist, upd_len, upd_idx, upd_stale,
                   updates, routeVars>>

PowerNext == PlanStations

SpecPower == PowerInit /\ [][PowerNext]_vars

\* C7: the capacity is 10 p, the station count is the least number of stations
\* whose output covers p n, the output is count * capacity, and it exceeds p n by
\* less than one capacity; p = 5, n = 23 gives 50, 3 and 150.
C7_StationCount ==
    sim_pc = "planned" =>
        LET p == power_per_sensor_mV
            n == n_sensors
        IN /\ summary.total_power = p * n
           /\ summary.station_capacity = 10 * p
           /\ summary.stations_needed * summary.station_capacity >= p * n
           /\ (summary.stations_needed - 1) * summary.station_capacity < p * n
           /\ summary.station_output = summary.stations_needed * summary.station_capacity
           /\ summary.station_output >= p * n
           /\ summary.station_output - p * n < summary.station_capacity
           /\ (p = 5 /\ n = 23) =>
                 /\ summary.station_capacity = 50
                 /\ summary.stations_needed = 3
                 /\ summary.station_output = 150

C7_Witness ==
    /\ sim_pc = "planned"
    /\ power_per_sensor_mV = 5 /\ n_sensors = 23
    /\ summary.stations_needed = 3 /\ summary.station_output = 150

====
